---- MODULE Spec2Model ----
(***************************************************************************)
(* Model of the Xiaomi miHeater integration (custom_components/miheater):  *)
(* the per-model property registry (const.py), the MiHeaterApi wrapper and *)
(* the MiHeaterEntity write methods (climate.py), driven by a              *)
(* DataUpdateCoordinator whose update_method is MiHeaterApi.async_get_status.*)
(*                                                                         *)
(* Python values are modelled as follows: None is the empty tuple, a       *)
(* property address (siid, piid) is a 2-tuple, a value held in a dict that *)
(* may also hold None is a 1-tuple <<v>>, bool is the integer 0/1 (as in   *)
(* Python, where True == 1), a raised exception is the string naming it.   *)
(***************************************************************************)
EXTENDS Integers, Sequences, FiniteSets, TLC

None == <<>>

Some(v) == <<v>>

\* dict.get(key): None when the key is missing
Get(d, k) == IF k \in DOMAIN d THEN d[k] ELSE None

-----------------------------------------------------------------------------
(* const.py *)

MIN_TEMP == 18

MAX_TEMP == 28

\* const.py's registry with zhimi.heater.zb1 and zhimi.heater.za2 giving the
\* current temperature the address of the humidity
ModelPropertiesSharedAddress ==
    [m \in {"zhimi.heater.mc2", "zhimi.heater.zb1", "zhimi.heater.za2"} |->
        IF m = "zhimi.heater.mc2"
        THEN [k \in {"power", "target_temperature", "current_temperature", "humidity"} |->
                CASE k = "power" -> <<2, 1>>
                  [] k = "target_temperature" -> <<2, 5>>
                  [] k = "current_temperature" -> <<4, 7>>
                  [] k = "humidity" -> None]
        ELSE [k \in {"power", "target_temperature", "current_temperature", "humidity"} |->
                CASE k = "power" -> <<2, 2>>
                  [] k = "target_temperature" -> <<2, 6>>
                  [] k = "current_temperature" -> <<5, 7>>
                  [] k = "humidity" -> <<5, 7>>]]

\* const.py's registry with a countdown_time address in the schema of
\* zhimi.heater.mc2
ModelPropertiesWithCountdown ==
    [m \in {"zhimi.heater.mc2", "zhimi.heater.zb1", "zhimi.heater.za2"} |->
        IF m = "zhimi.heater.mc2"
        THEN [k \in {"power", "target_temperature", "current_temperature", "humidity",
                     "countdown_time"} |->
                CASE k = "power" -> <<2, 1>>
                  [] k = "target_temperature" -> <<2, 5>>
                  [] k = "current_temperature" -> <<4, 7>>
                  [] k = "humidity" -> None
                  [] k = "countdown_time" -> <<2, 9>>]
        ELSE [k \in {"power", "target_temperature", "current_temperature", "humidity"} |->
                CASE k = "power" -> <<2, 2>>
                  [] k = "target_temperature" -> <<2, 6>>
                  [] k = "current_temperature" -> <<5, 8>>
                  [] k = "humidity" -> <<5, 7>>]]

MODEL_PROPERTIES ==
    [m \in {"zhimi.heater.mc2", "zhimi.heater.zb1", "zhimi.heater.za2"} |->
        IF m = "zhimi.heater.mc2"
        THEN [k \in {"power", "target_temperature", "current_temperature", "humidity"} |->
                CASE k = "power" -> <<2, 1>>
                  [] k = "target_temperature" -> <<2, 5>>
                  [] k = "current_temperature" -> <<4, 7>>
                  [] k = "humidity" -> None]
        ELSE [k \in {"power", "target_temperature", "current_temperature", "humidity"} |->
                CASE k = "power" -> <<2, 2>>
                  [] k = "target_temperature" -> <<2, 6>>
                  [] k = "current_temperature" -> <<5, 8>>
                  [] k = "humidity" -> <<5, 7>>]]

\* climate.py imports MODEL_LIMITS, DEFAULT_MIN_TEMP and DEFAULT_MAX_TEMP from
\* const.py, which does not define them.  They are modelled from the
\* specification's ModelLimits: a per-model mapping whose missing entries
\* fall back to defaults; no model has an entry.
MODEL_LIMITS == [m \in {} |-> None]

DEFAULT_MIN_TEMP == MIN_TEMP

DEFAULT_MAX_TEMP == MAX_TEMP

-----------------------------------------------------------------------------
(* MiHeaterApi: pure parts *)

\* _build_property_map: the schema's entries whose address is not None
_build_property_map(props) ==
    [k \in {key \in DOMAIN props : props[key] # None} |-> props[k]]

\* The dict comprehension of async_get_status without its `if` clause
RECURSIVE ValuesByKeyAnyCode(_)
ValuesByKeyAnyCode(values) ==
    IF values = <<>> THEN <<>>
    ELSE LET n == Len(values)
             rest == ValuesByKeyAnyCode(SubSeq(values, 1, n - 1))
             e == values[n]
             key == <<e.siid, e.piid>>
         IN [k \in DOMAIN rest \cup {key} |-> IF k = key THEN e.value ELSE rest[k]]

\* The dict comprehension of async_get_status: the returned values keyed by
\* address, for the entries whose code is 0.  values is a sequence of
\* entries [siid, piid, code, value]; a later entry overwrites an earlier one.
RECURSIVE values_by_key(_)
values_by_key(values) ==
    IF values = <<>> THEN <<>>
    ELSE LET n == Len(values)
             rest == values_by_key(SubSeq(values, 1, n - 1))
             e == values[n]
             key == <<e.siid, e.piid>>
         IN IF e.code = 0
            THEN [k \in DOMAIN rest \cup {key} |->
                     IF k = key THEN e.value ELSE rest[k]]
            ELSE rest

\* async_get_status, lines 66-68: the addresses asked of the device, in the
\* order of the schema's keys
requested_params(props) ==
    LET property_map == _build_property_map(props)
        keys == SelectSeq(<<"power", "target_temperature", "current_temperature",
                            "humidity", "child_lock", "buzzer", "led_brightness",
                            "countdown_time">>,
                          LAMBDA k : k \in DOMAIN property_map)
    IN [i \in 1..Len(keys) |-> property_map[keys[i]]]

\* async_get_status with the data filled for every key of the schema
GetStatusAllKeys(model, registry, props, reply) ==
    LET property_map == _build_property_map(props)
        by_key == values_by_key(reply.values)
        fetched == [k \in DOMAIN props |->
                      IF k \in DOMAIN property_map
                      THEN Get(by_key, property_map[k]) ELSE None]
        countdown == Get(fetched, "countdown_time")
    IN IF model \notin DOMAIN registry
       THEN [raised |-> "UpdateFailed", data |-> None]
       ELSE IF reply.raised
       THEN [raised |-> "UpdateFailed", data |-> None]
       ELSE [raised |-> "",
             data |-> [k \in DOMAIN fetched \cup {"delay_off"} |->
                         IF k = "delay_off"
                         THEN IF countdown # None
                              THEN Some(countdown[1] * 3600)
                              ELSE None
                         ELSE fetched[k]]]

\* async_get_status with the DeviceException swallowed: the data is built
\* from no values
GetStatusFailsOpen(model, registry, props, reply) ==
    LET property_map == _build_property_map(props)
        by_key == IF reply.raised THEN <<>> ELSE values_by_key(reply.values)
        fetched == [k \in DOMAIN property_map |-> Get(by_key, property_map[k])]
        countdown == Get(fetched, "countdown_time")
    IN IF model \notin DOMAIN registry
       THEN [raised |-> "UpdateFailed", data |-> None]
       ELSE [raised |-> "",
             data |-> [k \in DOMAIN fetched \cup {"delay_off"} |->
                         IF k = "delay_off"
                         THEN IF countdown # None
                              THEN Some(countdown[1] * 3600)
                              ELSE None
                         ELSE fetched[k]]]

\* async_get_status after the transport call: reply is what
\* _async_raw_command("get_properties", requested) did, either raising
\* DeviceException or returning a list of entries.  The result is either
\* the exception raised or the data returned.
async_get_status(model, registry, props, reply) ==
    LET property_map == _build_property_map(props)
        by_key == values_by_key(reply.values)
        fetched == [k \in DOMAIN property_map |-> Get(by_key, property_map[k])]
        countdown == Get(fetched, "countdown_time")
    IN IF model \notin DOMAIN registry
       THEN [raised |-> "UpdateFailed", data |-> None]
       ELSE IF reply.raised
       THEN [raised |-> "UpdateFailed", data |-> None]
       ELSE [raised |-> "",
             data |-> [k \in DOMAIN fetched \cup {"delay_off"} |->
                         IF k = "delay_off"
                         THEN IF countdown # None
                              THEN Some(countdown[1] * 3600)
                              ELSE None
                         ELSE fetched[k]]]

\* async_set_led_brightness without the inversion for zhimi.heater.za2
LedBrightnessMappedPlain(model, brightness) ==
    CASE brightness = "on" -> 0
      [] brightness = "off" -> 1
      [] brightness = "dim" -> 2

\* async_set_led_brightness: the device integer written for a brightness name
led_brightness_mapped(model, brightness) ==
    LET mapped == CASE brightness = "on" -> 0
                    [] brightness = "off" -> 1
                    [] brightness = "dim" -> 2
    IN IF model = "zhimi.heater.za2" /\ mapped # 0 THEN 3 - mapped ELSE mapped

\* async_set_delay_off with the hours rounded to the nearest hour
DelayOffHoursRounded(seconds) == (seconds + 1800) \div 3600

\* async_set_delay_off: the hours written for a number of seconds,
\* int(seconds // 3600)
delay_off_hours(seconds) == seconds \div 3600

\* _normalize_led_brightness: the brightness name shown for a device integer
_normalize_led_brightness(model, value) ==
    LET v == IF model = "zhimi.heater.za2" /\ value # 0 THEN 3 - value ELSE value
    IN CASE v = 0 -> "on"
         [] v = 1 -> "off"
         [] v = 2 -> "dim"
         [] OTHER -> "unknown"

\* MiHeaterEntity.extra_state_attributes: the attributes shown for a
\* snapshot, keyed by name; a value that is None in the snapshot is left out
extra_state_attributes(model, data) ==
    LET shown == {k \in {"humidity", "child_lock", "buzzer", "led_brightness"} :
                     Get(data, k) # None}
                 \cup (IF Get(data, "delay_off") # None
                       THEN {"delay_off_seconds"} ELSE {})
    IN [k \in shown |->
           CASE k = "led_brightness" -> _normalize_led_brightness(model, data[k][1])
             [] k = "delay_off_seconds" -> data["delay_off"][1]
             [] OTHER -> data[k][1]]

-----------------------------------------------------------------------------
(* The write path: MiHeaterApi._async_set_property and the checks the       *)
(* MiHeaterEntity methods make before calling the API.  Each check yields   *)
(* the reason of the UpdateFailed it raises, or "" when it passes.          *)

\* _async_set_property, lines 126-128, with `name in self._properties`
\* written for `self._properties.get(name) is None`
SetPropertyKeyCheck(props, name) ==
    IF name \notin DOMAIN props THEN "unsupported" ELSE ""

\* _async_set_property, lines 126-128
_async_set_property_check(props, name) ==
    IF Get(props, name) = None THEN "unsupported" ELSE ""

\* async_set_child_lock / async_set_buzzer, lines 277-278 and 283-284
feature_check(props, name) ==
    IF Get(props, name) = None THEN "unsupported" ELSE ""

\* async_set_led_brightness, lines 289-292
led_brightness_check(props, model, brightness) ==
    IF Get(props, "led_brightness") = None THEN "unsupported"
    ELSE IF brightness = "dim" /\ model # "zhimi.heater.za2" THEN "dim"
    ELSE ""

\* self._limits.get("delay_off_range", (0, 12))
delay_off_range(limits) ==
    IF "delay_off_range" \in DOMAIN limits THEN limits["delay_off_range"] ELSE <<0, 12>>

\* async_set_delay_off, lines 297-304, with the upper bound compared by >=
DelayOffCheckStrictMax(props, limits, seconds) ==
    LET min_seconds == delay_off_range(limits)[1] * 3600
        max_seconds == delay_off_range(limits)[2] * 3600
    IN IF Get(props, "countdown_time") = None THEN "unsupported"
       ELSE IF seconds < min_seconds \/ seconds >= max_seconds THEN "range"
       ELSE ""

\* async_set_delay_off, lines 297-304
delay_off_check(props, limits, seconds) ==
    LET min_seconds == delay_off_range(limits)[1] * 3600
        max_seconds == delay_off_range(limits)[2] * 3600
    IN IF Get(props, "countdown_time") = None THEN "unsupported"
       ELSE IF seconds < min_seconds \/ seconds > max_seconds THEN "range"
       ELSE ""

\* MiHeaterEntity.__init__, lines 208-211
limits_for(registry_limits, model) ==
    IF model \in DOMAIN registry_limits
    THEN registry_limits[model]
    ELSE [k \in {"temperature_range"} |-> <<DEFAULT_MIN_TEMP, DEFAULT_MAX_TEMP>>]

-----------------------------------------------------------------------------
(* Bounds and inputs *)

\* fetches that may be in flight at once in the model
MaxInflight == 1

\* attributes that one get_properties reply may leave without a good entry
MaxFailedEntries == 1

\* a model name that const.py does not list
UnknownModel == "zhimi.heater.xx9"

Models == DOMAIN MODEL_PROPERTIES

Attributes ==
    <<"power", "target_temperature", "current_temperature", "humidity",
      "child_lock", "buzzer", "led_brightness", "countdown_time">>

\* Addresses given to the attributes that no compiled-in schema addresses
ExtraAddress(k) ==
    CASE k = "child_lock" -> <<7, 1>>
      [] k = "buzzer" -> <<6, 1>>
      [] k = "led_brightness" -> <<6, 2>>
      [] k = "countdown_time" -> <<2, 9>>

\* The schemas drawn for a model.  zhimi.heater.zb1: the compiled-in one.
\* zhimi.heater.za2, the model with the inverted brightness encoding: the
\* compiled-in one with the LED brightness addressed.  zhimi.heater.mc2: the
\* compiled-in one, the compiled-in one with one more attribute addressed,
\* and the compiled-in one with power or target temperature unsupported.
SchemaFamily(m) ==
    LET base == MODEL_PROPERTIES[m]
        with(x) == [k \in DOMAIN base \cup {x} |->
                      IF k = x THEN ExtraAddress(x) ELSE base[k]]
        without(x) == [k \in DOMAIN base |-> IF k = x THEN None ELSE base[k]]
    IN CASE m = "zhimi.heater.mc2" ->
              {base}
              \cup {with(x) : x \in {"child_lock", "buzzer", "led_brightness",
                                     "countdown_time"}}
              \cup {without(x) : x \in {"power", "target_temperature"}}
         [] m = "zhimi.heater.za2" -> {with("led_brightness")}
         [] OTHER -> {base}

\* The limits drawn for a model: no entry (defaults) or, with a schema that
\* addresses the countdown, an entry with a delay-off range of 1..2 hours
LimitsFamily(m, schema) ==
    IF Get(schema, "countdown_time") = None THEN {MODEL_LIMITS} ELSE
    {MODEL_LIMITS,
     [x \in {m} |-> [k \in {"temperature_range", "delay_off_range"} |->
                       IF k = "temperature_range" THEN <<MIN_TEMP, MAX_TEMP>> ELSE <<1, 2>>]]}

\* Values a device may report for an attribute
Samples(k) ==
    CASE k = "power" -> {1}
      [] k = "target_temperature" -> {20}
      [] k = "current_temperature" -> {19}
      [] k = "humidity" -> {40}
      [] k = "child_lock" -> {1}
      [] k = "buzzer" -> {0}
      [] k = "led_brightness" -> {1, 3}
      [] k = "countdown_time" -> {0, 1, 2}

\* What a get_properties reply may hold for one requested attribute: no
\* entry, an entry with a non-zero code (and a value all the same), or an
\* entry with code 0 and a value.  Power fails in both ways, the current
\* temperature by a missing entry, every other attribute by a non-zero code.
EntryOptions(k) ==
    (IF k \in {"power", "current_temperature"}
     THEN {[present |-> FALSE, code |-> 0, value |-> None]} ELSE {})
    \cup (IF k # "current_temperature"
          THEN {[present |-> TRUE, code |-> -4001,
                 value |-> Some(CHOOSE v \in Samples(k) : TRUE)]}
          ELSE {})
    \cup {[present |-> TRUE, code |-> 0, value |-> Some(v)] : v \in Samples(k)}

\* The lists of entries a reply may hold, in the order of the request, with
\* at most `failures` attributes left without an entry of code 0
RECURSIVE EntryLists(_, _, _)
EntryLists(property_map, i, failures) ==
    IF i > Len(Attributes) THEN {<<>>}
    ELSE LET k == Attributes[i]
             good == {o \in EntryOptions(k) : o.present /\ o.code = 0}
             bad == IF failures > 0 THEN EntryOptions(k) \ good ELSE {}
             entry(o) == <<[siid |-> property_map[k][1], piid |-> property_map[k][2],
                            code |-> o.code, value |-> o.value]>>
         IN IF k \notin DOMAIN property_map
            THEN EntryLists(property_map, i + 1, failures)
            ELSE {entry(o) \o rest :
                     o \in good, rest \in EntryLists(property_map, i + 1, failures)}
                 \cup {(IF o.present THEN entry(o) ELSE <<>>) \o rest :
                     o \in bad, rest \in EntryLists(property_map, i + 1, failures - 1)}

\* The outcomes of _async_raw_command("get_properties", requested)
GetReplies(props) ==
    {[raised |-> TRUE, values |-> <<>>]}
    \cup {[raised |-> FALSE, values |-> values] :
             values \in EntryLists(_build_property_map(props), 1, MaxFailedEntries)}

\* GetReplies for every schema that may be loaded, computed once
RepliesFor == [s \in UNION {SchemaFamily(m) : m \in Models} |-> GetReplies(s)]

\* The outcomes of _async_raw_command("set_properties", ...): DeviceException,
\* or a reply whose entry has the given code
SetReplies ==
    {[raised |-> TRUE, code |-> 0], [raised |-> FALSE, code |-> 0],
     [raised |-> FALSE, code |-> -4003]}

Temperatures == {MIN_TEMP - 1, MIN_TEMP, MAX_TEMP, MAX_TEMP + 1}

HvacModes == {"heat", "off", "cool"}

Brightnesses == {"on", "off", "dim"}

DelaySeconds == {-1, 0, 3599, 3600, 5400, 7200, 7201, 43200, 43201}

-----------------------------------------------------------------------------
(* State *)

VARIABLES
    model,               \* entry.data[CONF_MODEL]
    registry,            \* the MODEL_PROPERTIES the module was loaded with
    limits_registry,     \* the MODEL_LIMITS the module was loaded with
    phase,               \* "new", "first_refresh", "running", or "not_ready":
                         \* async_setup_entry raised ConfigEntryNotReady
    properties,          \* MiHeaterApi._properties / MiHeaterEntity._properties
    limits,              \* MiHeaterEntity._limits
    data,                \* coordinator.data
    last_update_success, \* coordinator.last_update_success
    fetching,            \* update_method calls awaiting their get_properties reply
    last_reply,          \* how the latest completed get_properties call ended
    last_values,         \* the entries of the latest get_properties reply
    requested,           \* the params of the latest get_properties call
    call                 \* the latest entity write call and where it stands

vars == <<model, registry, limits_registry, phase, properties, limits, data,
          last_update_success, fetching, last_reply, last_values, requested, call>>

NoCall ==
    [op |-> "", arg |-> None, pc |-> "idle", raised |-> "", reason |-> "",
     transport |-> "",
     sets |-> 0, request |-> [address |-> None, value |-> 0], code |-> 0,
     refresh |-> FALSE]

TypeOK ==
    /\ phase \in {"new", "first_refresh", "running", "not_ready"}
    /\ fetching \in 0..MaxInflight
    /\ last_update_success \in BOOLEAN
    /\ last_reply \in {"", "raised", "returned"}
    /\ call.pc \in {"idle", "set_properties", "done"}
    /\ call.raised \in {"", "UpdateFailed", "DeviceException"}
    /\ call.reason \in {"", "unsupported", "dim", "range", "transport"}
    /\ call.transport \in {"", "raised", "returned"}
    /\ call.refresh \in BOOLEAN
    /\ call.sets \in 0..1
    /\ Len(requested) <= Len(Attributes)

InitCommon ==
    /\ phase = "new"
    /\ properties = None
    /\ limits = None
    /\ data = None
    /\ last_update_success = TRUE
    /\ fetching = 0
    /\ last_reply = ""
    /\ last_values = <<>>
    /\ requested = <<>>
    /\ call = NoCall

\* The integration as shipped: const.py's registry, any configured model
Init ==
    /\ model \in Models \cup {UnknownModel}
    /\ registry = MODEL_PROPERTIES
    /\ limits_registry = MODEL_LIMITS
    /\ InitCommon

\* The same code loaded with a registry in which the configured model has a
\* schema of SchemaFamily and limits of LimitsFamily: the code of the
\* child-lock, buzzer, LED and delay-off writes past their support check is
\* not reachable with const.py's registry.
InitSchema ==
    /\ model \in Models
    /\ registry \in {[MODEL_PROPERTIES EXCEPT ![model] = s] : s \in SchemaFamily(model)}
    /\ limits_registry \in LimitsFamily(model, registry[model])
    /\ InitCommon

-----------------------------------------------------------------------------
(* Setup and the coordinator *)

\* climate.async_setup_entry up to the await of the first refresh
AsyncSetupEntry ==
    /\ phase = "new"
    /\ IF model \notin DOMAIN registry
       THEN /\ phase' = "not_ready"
            /\ UNCHANGED <<properties, fetching, requested>>
       ELSE /\ phase' = "first_refresh"
            /\ properties' = registry[model]
            /\ fetching' = 1
            /\ requested' = requested_params(registry[model])
    /\ UNCHANGED <<model, registry, limits_registry, limits, data,
                   last_update_success, last_reply, last_values, call>>

\* The coordinator's timer (update_interval = 30 s) fires: update_method runs
\* and issues get_properties
Tick ==
    /\ phase = "running"
    /\ fetching < MaxInflight
    /\ fetching' = fetching + 1
    /\ requested' = requested_params(properties)
    /\ UNCHANGED <<model, registry, limits_registry, phase, properties, limits,
                   data, last_update_success, last_reply, last_values, call>>

\* A get_properties call ends: async_get_status returns the data or raises,
\* and the coordinator stores the data returned.  The first refresh decides
\* the setup: the entity is created when it succeeds.
FetchComplete ==
    /\ fetching > 0
    /\ \E reply \in RepliesFor[properties] :
         LET r == async_get_status(model, registry, properties, reply)
         IN /\ last_reply' = IF reply.raised THEN "raised" ELSE "returned"
            /\ last_values' = IF reply.raised THEN last_values ELSE reply.values
            /\ data' = IF r.raised = "" THEN r.data ELSE data
            /\ last_update_success' = (r.raised = "")
            /\ IF phase = "first_refresh"
               THEN IF r.raised = ""
                    THEN /\ phase' = "running"
                         /\ limits' = limits_for(limits_registry, model)
                    ELSE /\ phase' = "not_ready"
                         /\ limits' = limits
               ELSE UNCHANGED <<phase, limits>>
    /\ fetching' = fetching - 1
    /\ UNCHANGED <<model, registry, limits_registry, properties, requested, call>>

\* coordinator.async_request_refresh(): the coordinator starts a fetch, or
\* leaves the request to a fetch in flight or to its debouncer
async_request_refresh ==
    \E start \in BOOLEAN :
        IF start
        THEN /\ fetching < MaxInflight
             /\ fetching' = fetching + 1
             /\ requested' = requested_params(properties)
        ELSE UNCHANGED <<fetching, requested>>

-----------------------------------------------------------------------------
(* The entity's write methods.  call.arg is the argument, wrapped; call.sets *)
(* counts the set_properties calls the method issued; call.refresh tells     *)
(* whether it went on to coordinator.async_request_refresh().                *)

NewCall(op, arg) == [NoCall EXCEPT !.op = op, !.arg = arg]

\* The method raises before any await
Raises(op, arg, exception, reason) ==
    /\ call' = [NewCall(op, arg) EXCEPT !.pc = "done", !.raised = exception,
                                        !.reason = reason]
    /\ UNCHANGED <<fetching, requested>>

\* _async_set_property, lines 129-132: a DeviceException of the awaited raw
\* command propagates, the list it returns is dropped
_async_set_property_result(reply) ==
    IF reply.raised THEN "DeviceException" ELSE ""

\* the entity methods with async_request_refresh in a finally clause
RefreshAlways(raised) == TRUE

\* the entity methods without their last line
RefreshNever(raised) == FALSE

\* MiHeaterEntity.async_set_*: the line after the awaited API call,
\* coordinator.async_request_refresh(), runs when the call did not raise
refresh_follows(raised) == raised = ""

\* MiHeaterApi._async_set_property(name, value) up to its await
ApiSetProperty(op, arg, name, value) ==
    LET check == _async_set_property_check(properties, name)
    IN IF check # ""
       THEN Raises(op, arg, "UpdateFailed", check)
       ELSE /\ call' = [NewCall(op, arg) EXCEPT
                           !.pc = "set_properties", !.sets = 1,
                           !.request = [address |-> Get(properties, name),
                                        value |-> value]]
            /\ UNCHANGED <<fetching, requested>>

\* A check of the entity method, then the API call
CheckedSet(op, arg, check, name, value) ==
    IF check # ""
    THEN Raises(op, arg, "UpdateFailed", check)
    ELSE ApiSetProperty(op, arg, name, value)

CanCall == phase = "running" /\ call.pc # "set_properties"

Frame ==
    UNCHANGED <<model, registry, limits_registry, phase, properties, limits, data,
                last_update_success, last_reply, last_values>>

\* async_set_temperature(**kwargs), no temperature given: returns at once
AsyncSetTemperatureNone ==
    /\ CanCall
    /\ call' = [NewCall("set_temperature", None) EXCEPT !.pc = "done"]
    /\ UNCHANGED <<fetching, requested>>
    /\ Frame

\* async_set_temperature(temperature=t)
AsyncSetTemperature ==
    /\ CanCall
    /\ \E t \in Temperatures :
         ApiSetProperty("set_temperature", Some(t), "target_temperature", t)
    /\ Frame

\* async_set_hvac_mode with `else` written for `elif hvac_mode == HVACMode.OFF`
\* and the branches swapped: every mode but off turns the power on
AsyncSetHvacModeElseOn ==
    /\ CanCall
    /\ \E m \in HvacModes :
         IF m = "off" THEN ApiSetProperty("set_hvac_mode", Some(m), "power", 0)
         ELSE ApiSetProperty("set_hvac_mode", Some(m), "power", 1)
    /\ Frame

\* async_set_hvac_mode(hvac_mode)
AsyncSetHvacMode ==
    /\ CanCall
    /\ \E m \in HvacModes :
         IF m = "heat" THEN ApiSetProperty("set_hvac_mode", Some(m), "power", 1)
         ELSE IF m = "off" THEN ApiSetProperty("set_hvac_mode", Some(m), "power", 0)
         ELSE /\ call' = [NewCall("set_hvac_mode", Some(m)) EXCEPT
                             !.pc = "done", !.refresh = TRUE]
              /\ async_request_refresh
    /\ Frame

\* async_set_child_lock(lock)
AsyncSetChildLock ==
    /\ CanCall
    /\ \E lock \in {0, 1} :
         CheckedSet("set_child_lock", Some(lock),
                    feature_check(properties, "child_lock"), "child_lock", lock)
    /\ Frame

\* async_set_buzzer(enabled)
AsyncSetBuzzer ==
    /\ CanCall
    /\ \E enabled \in {0, 1} :
         CheckedSet("set_buzzer", Some(enabled),
                    feature_check(properties, "buzzer"), "buzzer", enabled)
    /\ Frame

\* async_set_led_brightness(brightness)
AsyncSetLedBrightness ==
    /\ CanCall
    /\ \E brightness \in Brightnesses :
         CheckedSet("set_led_brightness", Some(brightness),
                    led_brightness_check(properties, model, brightness),
                    "led_brightness", led_brightness_mapped(model, brightness))
    /\ Frame

\* async_set_delay_off(seconds)
AsyncSetDelayOff ==
    /\ CanCall
    /\ \E seconds \in DelaySeconds :
         CheckedSet("set_delay_off", Some(seconds),
                    delay_off_check(properties, limits, seconds),
                    "countdown_time", delay_off_hours(seconds))
    /\ Frame

\* The awaited set_properties call ends and the entity method runs to its end
SetPropertiesReturn ==
    /\ call.pc = "set_properties"
    /\ \E reply \in SetReplies :
         LET raised == _async_set_property_result(reply)
             transport == IF reply.raised THEN "raised" ELSE "returned"
         IN IF refresh_follows(raised)
            THEN /\ call' = [call EXCEPT !.pc = "done", !.raised = raised,
                                         !.reason = IF raised = "" THEN "" ELSE "transport",
                                         !.transport = transport,
                                         !.code = reply.code, !.refresh = TRUE]
                 /\ async_request_refresh
            ELSE /\ call' = [call EXCEPT !.pc = "done", !.raised = raised,
                                         !.reason = IF raised = "" THEN "" ELSE "transport",
                                         !.transport = transport,
                                         !.code = reply.code]
                 /\ UNCHANGED <<fetching, requested>>
    /\ Frame

-----------------------------------------------------------------------------

Next ==
    \/ AsyncSetupEntry
    \/ Tick
    \/ FetchComplete
    \/ AsyncSetTemperatureNone
    \/ AsyncSetTemperature
    \/ AsyncSetHvacMode
    \/ AsyncSetChildLock
    \/ AsyncSetBuzzer
    \/ AsyncSetLedBrightness
    \/ AsyncSetDelayOff
    \/ SetPropertiesReturn

Spec == Init /\ [][Next]_vars

SpecSchema == InitSchema /\ [][Next]_vars

-----------------------------------------------------------------------------
(* Properties *)

\* The snapshot has been written by a refresh
HasSnapshot == "delay_off" \in DOMAIN data

\* C2: a fetch whose get_properties call raises DeviceException leaves the
\* snapshot as it was and is recorded as a failed update
\* (last_update_success is False); the snapshot changes only in a step in
\* which a get_properties call returned; after any fetch the running
\* coordinator's timer can start the next fetch.
C2_FailedFetchKeepsSnapshot ==
    /\ [][/\ (fetching' = fetching - 1 /\ last_reply' = "raised")
               => (data' = data /\ last_update_success' = FALSE)
          /\ (data' # data)
               => (fetching' = fetching - 1 /\ last_reply' = "returned")]_vars
    /\ []((phase = "running" /\ fetching = 0) => ENABLED Tick)

\* C2 witness: a fetch failed after one that had succeeded, the snapshot of
\* the earlier one is still there and the coordinator is idle
C2_Witness ==
    /\ phase = "running"
    /\ last_reply = "raised"
    /\ ~last_update_success
    /\ fetching = 0
    /\ HasSnapshot
    /\ data["target_temperature"] = Some(20)

\* The attribute a write method writes; a set_hvac_mode other than heat or
\* off and a set_temperature without a temperature write nothing
WrittenAttribute ==
    CASE call.op = "set_temperature" /\ call.arg # None -> "target_temperature"
      [] call.op = "set_hvac_mode" /\ call.arg \in {Some("heat"), Some("off")} -> "power"
      [] call.op = "set_child_lock" -> "child_lock"
      [] call.op = "set_buzzer" -> "buzzer"
      [] call.op = "set_led_brightness" -> "led_brightness"
      [] call.op = "set_delay_off" -> "countdown_time"
      [] OTHER -> ""

\* C3: a write of an attribute that has no address in the model's schema
\* (None or no key) raises UpdateFailed for an unsupported property, has
\* issued no set_properties call and has requested no refresh.
C3_UnsupportedWriteNoTransport ==
    (WrittenAttribute # "" /\ Get(properties, WrittenAttribute) = None)
        => /\ call.pc = "done"
           /\ call.raised = "UpdateFailed"
           /\ call.reason = "unsupported"
           /\ call.sets = 0
           /\ ~call.refresh

\* C3 witness: set_child_lock on a model of const.py's registry
C3_Witness ==
    /\ registry = MODEL_PROPERTIES
    /\ call.op = "set_child_lock"
    /\ call.pc = "done"
    /\ call.reason = "unsupported"
    /\ call.sets = 0

\* The entries of the latest reply that answer attribute k
EntriesFor(k) ==
    {i \in DOMAIN last_values :
        <<last_values[i].siid, last_values[i].piid>> = properties[k]}

\* C6: once a get_properties call has returned, the snapshot holds, for every
\* attribute the schema addresses, the value of the reply's entry with code 0
\* for that address, and None when the reply has no such entry (no entry, or
\* an entry with another code); a reply that returned always yields a
\* snapshot.
C6_PartialFailureRead ==
    /\ last_reply = "returned" => HasSnapshot
    /\ HasSnapshot =>
         \A k \in DOMAIN properties :
            properties[k] # None =>
               /\ k \in DOMAIN data
               /\ \A i \in EntriesFor(k) :
                     last_values[i].code = 0 => data[k] = last_values[i].value
               /\ (\A i \in EntriesFor(k) : last_values[i].code # 0) => data[k] = None

\* C6 witness: a reply with a failed entry for power and a good entry for the
\* target temperature
C6_Witness ==
    /\ HasSnapshot
    /\ \E i \in DOMAIN last_values :
          /\ <<last_values[i].siid, last_values[i].piid>> = properties["power"]
          /\ last_values[i].code # 0
    /\ data["power"] = None
    /\ data["target_temperature"] = Some(20)

\* C4: a set_temperature below the entity's minimum or above its maximum
\* target temperature raises for the range with no set_properties call
\* issued and no refresh requested.
C4_OutOfRangeTemperatureRejected ==
    (/\ call.op = "set_temperature"
     /\ call.arg # None
     /\ \/ call.arg[1] < limits["temperature_range"][1]
        \/ call.arg[1] > limits["temperature_range"][2])
        => /\ call.pc = "done"
           /\ call.raised = "UpdateFailed"
           /\ call.reason = "range"
           /\ call.sets = 0
           /\ ~call.refresh

\* C5: with a schema that addresses the countdown, set_delay_off(seconds)
\* raises for the range, with no set_properties call issued, when seconds is
\* below min_hours * 3600 or above max_hours * 3600 of the limits'
\* delay_off_range (0 and 12 when the limits have none), and issues its
\* set_properties call for every other value.
C5_DelayOffRange ==
    (call.op = "set_delay_off" /\ Get(properties, "countdown_time") # None) =>
        LET range == IF "delay_off_range" \in DOMAIN limits
                     THEN limits["delay_off_range"] ELSE <<0, 12>>
            seconds == call.arg[1]
        IN IF seconds < range[1] * 3600 \/ seconds > range[2] * 3600
           THEN /\ call.pc = "done"
                /\ call.raised = "UpdateFailed"
                /\ call.reason = "range"
                /\ call.sets = 0
                /\ ~call.refresh
           ELSE /\ call.sets = 1
                /\ call.reason # "range"

\* C5 witness: with the default range, 43201 seconds has been refused
C5_Witness ==
    /\ call.op = "set_delay_off"
    /\ Get(properties, "countdown_time") # None
    /\ "delay_off_range" \notin DOMAIN limits
    /\ call.arg = Some(43201)
    /\ call.reason = "range"
    /\ call.sets = 0

\* C7: a write whose set_properties call returned an entry with a non-zero
\* code ends as a failure.
C7_RejectedWriteFails ==
    (call.pc = "done" /\ call.transport = "returned" /\ call.code # 0)
        => call.raised # ""

C9_WriteTransportError ==
    /\ []((call.pc = "done" /\ call.transport = "raised")
            => /\ call.raised = "DeviceException"
               /\ call.sets = 1
               /\ ~call.refresh)
    /\ [][(call.pc = "set_properties" /\ call'.transport = "raised")
            => /\ data' = data
               /\ fetching' = fetching
               /\ last_update_success' = last_update_success]_vars

\* C9 witness: a set_hvac_mode(heat) failed in the transport
C9_Witness ==
    /\ call.op = "set_hvac_mode"
    /\ call.pc = "done"
    /\ call.transport = "raised"
    /\ call.raised = "DeviceException"
    /\ call.sets = 1

\* C10: a set_led_brightness that reached the transport wrote an integer
\* that _normalize_led_brightness turns back into the brightness asked for;
\* with a schema that addresses the LED, zhimi.heater.za2 writes on, off and
\* dim, every other model writes on and off and refuses dim with no
\* set_properties call.
C10_BrightnessRoundTrip ==
    (call.op = "set_led_brightness" /\ Get(properties, "led_brightness") # None) =>
        IF call.arg = Some("dim") /\ model # "zhimi.heater.za2"
        THEN /\ call.pc = "done"
             /\ call.raised = "UpdateFailed"
             /\ call.sets = 0
             /\ ~call.refresh
        ELSE /\ call.sets = 1
             /\ Some(_normalize_led_brightness(model, call.request.value)) = call.arg

\* C10 witness: zhimi.heater.za2 has written dim as 1
C10_Witness ==
    /\ model = "zhimi.heater.za2"
    /\ call.op = "set_led_brightness"
    /\ call.arg = Some("dim")
    /\ call.sets = 1
    /\ call.request.value = 1

\* The code-0 value of the countdown entry in a list of reply entries, None
\* when the list has no such entry
CountdownIn(values) ==
    LET hits == {i \in DOMAIN values :
                    /\ <<values[i].siid, values[i].piid>> = Get(properties, "countdown_time")
                    /\ values[i].code = 0}
    IN IF hits = {} THEN None ELSE values[CHOOSE i \in hits : TRUE].value

\* C11: a set_delay_off(s) that reached the transport wrote s div 3600 to the
\* countdown address; when a get_properties call that returns after the
\* write has succeeded reports that value for the countdown, the snapshot's
\* delay_off becomes (s div 3600) * 3600; a snapshot without a countdown
\* value has delay_off None, not 0.
C11_DelayOffRoundTrip ==
    /\ []((call.op = "set_delay_off" /\ call.sets = 1)
            => /\ call.request.address = properties["countdown_time"]
               /\ call.request.value = call.arg[1] \div 3600)
    /\ [][(/\ call.op = "set_delay_off"
           /\ call.pc = "done"
           /\ call.raised = ""
           /\ fetching' = fetching - 1
           /\ last_reply' = "returned"
           /\ CountdownIn(last_values') = Some(call.request.value))
            => data'["delay_off"] = Some((call.arg[1] \div 3600) * 3600)]_vars
    /\ []((HasSnapshot /\ Get(data, "countdown_time") = None)
            => data["delay_off"] = None)

\* C11 witness: set_delay_off(5400) wrote 1 hour, and the snapshot of a
\* reply that reports 1 hour holds 3600 seconds
C11_Witness ==
    /\ call.op = "set_delay_off"
    /\ call.arg = Some(5400)
    /\ call.pc = "done"
    /\ call.raised = ""
    /\ call.request.value = 1
    /\ last_reply = "returned"
    /\ CountdownIn(last_values) = Some(1)
    /\ data["delay_off"] = Some(3600)

\* The attributes of the loaded schema that have the address of a reply entry
AttributesAt(entry) ==
    {k \in DOMAIN properties : properties[k] = <<entry.siid, entry.piid>>}

\* C12: in every schema of the registry the addresses that are not None are
\* pairwise distinct, so every entry of a get_properties reply has the
\* address of at most one attribute.
C12_AddressesDistinct ==
    /\ \A m \in DOMAIN registry :
          \A k1, k2 \in DOMAIN registry[m] :
             (k1 # k2 /\ registry[m][k1] # None /\ registry[m][k2] # None)
                => registry[m][k1] # registry[m][k2]
    /\ \A i \in DOMAIN last_values : Cardinality(AttributesAt(last_values[i])) <= 1

\* C12 witness: zhimi.heater.zb1, all four attributes addressed, got a reply
\* with four entries, each of which answers one attribute
C12_Witness ==
    /\ model = "zhimi.heater.zb1"
    /\ registry = MODEL_PROPERTIES
    /\ last_reply = "returned"
    /\ Len(last_values) = 4
    /\ \A i \in DOMAIN last_values : Cardinality(AttributesAt(last_values[i])) = 1

\* The attributes to which the loaded schema gives an address
Addressed == {k \in DOMAIN properties : properties[k] # None}

\* C13: the keys of the snapshot are attributes to which the schema gives an
\* address, or the derived delay_off; every address a get_properties call
\* asks for is the address of such an attribute, one per attribute; an
\* attribute whose address is None is no key of the snapshot.
C13_SnapshotKeys ==
    /\ HasSnapshot => DOMAIN data \subseteq Addressed \cup {"delay_off"}
    /\ \A i \in DOMAIN requested :
          \E k \in Addressed : properties[k] = requested[i]
    /\ Len(requested) <= Cardinality(Addressed)
    /\ HasSnapshot =>
          \A k \in DOMAIN properties : properties[k] = None => k \notin DOMAIN data

\* C13 witness: zhimi.heater.mc2, whose humidity has no address, asked for
\* three addresses and has a snapshot without a humidity key
C13_Witness ==
    /\ model = "zhimi.heater.mc2"
    /\ registry = MODEL_PROPERTIES
    /\ HasSnapshot
    /\ properties["humidity"] = None
    /\ Len(requested) = 3
    /\ DOMAIN data = {"power", "target_temperature", "current_temperature", "delay_off"}

\* C14: the setup of a model that the registry does not list ends without a
\* MiHeaterApi, without a get_properties or set_properties call, without a
\* snapshot and without an entity to call, and it does not end by raising
\* ConfigEntryNotReady, the exception by which a setup asks to be tried
\* again later.
C14_UnknownModelSetupFatal ==
    (model \notin DOMAIN registry /\ phase # "new")
        => /\ properties = None
           /\ fetching = 0
           /\ requested = <<>>
           /\ last_reply = ""
           /\ ~HasSnapshot
           /\ call.op = ""
           /\ phase # "not_ready"

\* C17: whenever the snapshot holds a device integer other than 0, 1 and 2
\* for the LED brightness, the led_brightness attribute shown for it is
\* "unknown", for every model.
C17_OutOfRangeBrightnessUnknown ==
    (/\ HasSnapshot
     /\ Get(data, "led_brightness") # None
     /\ data["led_brightness"][1] \notin {0, 1, 2})
        => extra_state_attributes(model, data)["led_brightness"] = "unknown"

\* async_set_hvac_mode up to its last line: what it wrote for the mode given
HvacModeWrite ==
    IF call.arg \in {Some("heat"), Some("off")}
    THEN /\ call.sets = 1
         /\ call.request.address = properties["power"]
         /\ call.request.value = (IF call.arg = Some("heat") THEN 1 ELSE 0)
    ELSE /\ call.sets = 0
         /\ call.pc = "done"
         /\ call.raised = ""

\* C18: set_hvac_mode with a mode other than heat and off issues no
\* set_properties call and requests a refresh; heat issues one set_properties
\* call that writes True to the power address, off one that writes False,
\* and each has requested a refresh when it ends.
C18_HvacModeWrites ==
    call.op = "set_hvac_mode"
        => /\ HvacModeWrite
           /\ call.pc = "done" => call.refresh

\* C18 as amended: the same, but heat and off have requested a refresh when
\* they end only if the set_properties call returned; when it raised
\* DeviceException they end with that exception and no refresh request.
C18_HvacModeWritesAmended ==
    call.op = "set_hvac_mode"
        => /\ HvacModeWrite
           /\ call.pc = "done" =>
                 IF call.transport = "raised"
                 THEN call.raised = "DeviceException" /\ ~call.refresh
                 ELSE call.raised = "" /\ call.refresh

\* C18 witness: set_hvac_mode(cool) ended with no set_properties call and a
\* refresh request that started a fetch
C18_Witness ==
    /\ call.op = "set_hvac_mode"
    /\ call.arg = Some("cool")
    /\ call.pc = "done"
    /\ call.sets = 0
    /\ call.refresh
    /\ fetching = 1

\* The attributes that no schema of const.py addresses
Unaddressed == {"child_lock", "buzzer", "led_brightness", "countdown_time"}

\* C19: no schema of the registry gives an address to the child lock, the
\* buzzer, the LED brightness or the countdown; set_child_lock, set_buzzer,
\* set_led_brightness and set_delay_off raise UpdateFailed for an
\* unsupported feature with no set_properties call; every snapshot has
\* delay_off None and no delay_off_seconds attribute is shown.
C19_RegistryLacksExtras ==
    /\ \A m \in DOMAIN registry : \A k \in Unaddressed : Get(registry[m], k) = None
    /\ call.op \in {"set_child_lock", "set_buzzer", "set_led_brightness", "set_delay_off"}
          => /\ call.pc = "done"
             /\ call.raised = "UpdateFailed"
             /\ call.reason = "unsupported"
             /\ call.sets = 0
             /\ call.transport = ""
    /\ HasSnapshot
          => /\ data["delay_off"] = None
             /\ "delay_off_seconds" \notin DOMAIN extra_state_attributes(model, data)

\* C19 witness: zhimi.heater.zb1 has a snapshot of a reply that returned,
\* with delay_off None, and has refused a set_delay_off of one hour
C19_Witness ==
    /\ model = "zhimi.heater.zb1"
    /\ last_reply = "returned"
    /\ HasSnapshot
    /\ data["delay_off"] = None
    /\ call.op = "set_delay_off"
    /\ call.arg = Some(3600)
    /\ call.reason = "unsupported"
    /\ call.sets = 0

====
